---- MODULE Spec2Model ----
(***************************************************************************)
(* A state-machine model of bmpfont.cpp: the preview widget (paintEvent),  *)
(* the font dialog handler (fontButton) and the generation run             *)
(* (saveButton), which rasterises every repertoire character into a        *)
(* 100x100 image, packs the pixels into bytes and emits the fields         *)
(* height, chars, width and advance.                                       *)
(*                                                                         *)
(* The host services (QFontMetrics, QPainter, QImage, stdio) are modelled  *)
(* by what the calls made in the source do.  A font is a small record of   *)
(* metrics; the character set, the image size and all loop bounds are the  *)
(* ones of the source.                                                     *)
(***************************************************************************)
EXTENDS Integers, Sequences, FiniteSets, TLC

(***************************************************************************)
(* The repertoire, as codepoints, in source order (bmpfont.cpp:13-24).     *)
(***************************************************************************)
chars ==
  << 32, 33, 34, 35, 36, 37, 38, 39, 40, 41, 42, 43, 44, 45, 46, 47,
     48, 49, 50, 51, 52, 53, 54, 55, 56, 57, 58, 59, 60, 61, 62, 63,
     64, 65, 66, 67, 68, 69, 70, 71, 72, 73, 74, 75, 76, 77, 78, 79,
     80, 81, 82, 83, 84, 85, 86, 87, 88, 89, 90, 91, 92, 93, 94, 95,
     96, 97, 98, 99, 100, 101, 102, 103, 104, 105, 106, 107, 108, 109, 110, 111,
     112, 113, 114, 115, 116, 117, 118, 119, 120, 121, 122, 123, 124, 125, 126, 7431,
     8734, 215, 247, 177, 176, 8704, 8709, 8712, 8713, 8729, 8747, 8776, 8804, 8805, 8898, 8899,
     8592, 8593, 8594, 8595, 8629, 11023, 945, 946, 915, 947, 916, 948, 1013, 989, 950, 951,
     920, 952, 953, 954, 923, 955, 956, 957, 926, 958, 928, 960, 961, 931, 963, 964,
     965, 934, 981, 967, 936, 968, 937, 969, 8230, 9642, 9666, 9652, 9656, 9662, 8800, 8823,
     8737, 178, 179, 739, 8322, 8505, 10218, 10219, 10647, 10648 >>

\* chars.size()
CharsSize == Len(chars)

\* QImage image(100, 100, ...): the raster is ImageWidth x ImageHeight.
ImageWidth == 100
ImageHeight == 100

\* paintEvent: for (y = 0; y < 6; ...) for (x = 0; x <= 32; ...), index y*32+x
PreviewRows == 6
PreviewCols == 32

\* Largest line height metrics.height() returns in the model.
MaxH == 2

(***************************************************************************)
(* QRect: Qt keeps the inclusive corners (x1, y1, x2, y2).                 *)
(***************************************************************************)
QRect(px, py, w, h) == [x1 |-> px, y1 |-> py, x2 |-> px + w - 1, y2 |-> py + h - 1]

rectX(rr) == rr.x1

rectWidth(rr) == rr.x2 - rr.x1 + 1

\* QRect::moveLeft keeps the width; setX does not.
moveLeft(rr, v) == [rr EXCEPT !.x1 = v, !.x2 = v + (rr.x2 - rr.x1)]

\* QRect::setX moves the left edge only: the right edge stays.
setX(rr, v) == [rr EXCEPT !.x1 = v]

\* QRect::setY moves the top edge only.
setY(rr, v) == [rr EXCEPT !.y1 = v]

\* QRect::setHeight keeps the top edge.
setHeight(rr, h) == [rr EXCEPT !.y2 = rr.y1 + h - 1]

(***************************************************************************)
(* Fonts.  A glyph's metrics are its bounding rectangle (x, y, w, h) and   *)
(* its advance.  A font gives every character the metrics `base`, except   *)
(* the character `altChar`, which has the metrics `alt`.                   *)
(***************************************************************************)
Glyph(px, py, w, h, a) == [x |-> px, y |-> py, w |-> w, h |-> h, adv |-> a]

BaseGlyphs ==
  { Glyph(1, -2, 9, 2, 11),     \* left bearing 1: one full group and a partial one
    Glyph(-1, 0, 3, 1, 2) }     \* negative left bearing

AltGlyphs ==
  { Glyph(0, 0, 0, 0, 4),       \* the empty rectangle (space)
    Glyph(2, 0, 0, 1, 3),       \* zero width away from the origin
    Glyph(0, 0, 3, 0, 3),       \* zero height, positive width
    Glyph(-2, 0, 1, 1, 1),      \* right edge left of the origin
    Glyph(-3, 0, 3, 1, 1),      \* right edge at the origin
    Glyph(93, -1, 8, 2, 9) }    \* right edge past the raster

\* U+0020 ' ' and U+006A 'j'
AltChars == {32, 106}

Fonts ==
  [h : 0..MaxH, base : BaseGlyphs, alt : AltGlyphs, altChar : AltChars]

MetricsOf(f, c) == IF c = f.altChar THEN f.alt ELSE f.base

\* QFontMetrics::height()
height(f) == f.h

\* QFontMetrics::boundingRect(QString)
boundingRect(f, c) ==
  LET g == MetricsOf(f, c) IN QRect(g.x, g.y, g.w, g.h)

\* QFontMetrics::horizontalAdvance(QString)
horizontalAdvance(f, c) == MetricsOf(f, c).adv

(***************************************************************************)
(* The raster.  An image is the set of its black pixels; every other       *)
(* pixel is white.                                                         *)
(***************************************************************************)
InImage(px, py) == 0 <= px /\ px < ImageWidth /\ 0 <= py /\ py < ImageHeight

\* A fill that leaves the image as it is.
FillNothing(img) == img

\* image.fill(QColor(255, 255, 255))
Fill(img) == {}

\* The pixels p.drawText(r, ch) inks: a pattern of the character inside r,
\* clipped to the image.
Ink(c, rr) ==
  { p \in (rr.x1 .. rr.x2) \X (rr.y1 .. rr.y2) :
      InImage(p[1], p[2]) /\ (p[1] + p[2] + c) % 3 = 0 }

\* p.setPen(QColor(0, 0, 0)); p.drawText(r, ch)
drawText(img, c, rr) == img \cup Ink(c, rr)

\* The blue channels image.pixel() may return for a position outside the
\* image: Qt documents the result as undefined (Qt 5 returns 12345, whose
\* blue channel is 57).
OobBlue == {57, 255}

\* qBlue(image.pixel(px, py)); ob holds the values of the reads outside.
qBluePixel(img, ob, px, py) ==
  IF InImage(px, py)
    THEN (IF <<px, py>> \in img THEN 0 ELSE 255)
    ELSE ob[<<px, py>>]

(***************************************************************************)
(* saveButton, lines 126-150: the rectangle the glyph is drawn in and      *)
(* scanned over, and the packing loops.                                    *)
(***************************************************************************)
\* r = boundingRect(ch); r.setY(0); r.setHeight(charHeight); r.setX(0)
GlyphRect(f, c, H) == setX(setHeight(setY(boundingRect(f, c), 0), H), 0)

\* for (int y = 0; y <= charHeight; y++)
RowCondInclusive(y, H) == y <= H

\* for (int y = 0; y < charHeight; y++)
RowCond(y, H) == y < H

\* for (...; xByte <= r.x() + r.width(); ...)
ColCondInclusive(rr, xByte) == xByte <= rectX(rr) + rectWidth(rr)

\* for (int xByte = 0; xByte < r.x() + r.width(); xByte += 8)
ColCond(rr, xByte) == xByte < rectX(rr) + rectWidth(rr)

\* int left = r.x() + r.width() - xByte; if (left > 8) left = 8;
Left(rr, xByte) ==
  LET left == rectX(rr) + rectWidth(rr) - xByte
  IN  IF left > 8 THEN 8 ELSE left

\* A partial group justified to the high bits: 1 << (7 - x)
BitPosHigh(left, x) == 7 - x

\* value |= 1 << ((left - 1) - x)
BitPos(left, x) == (left - 1) - x

RECURSIVE RowsFrom(_, _)
\* The values y takes in the row loop, in order.
RowsFrom(y, H) ==
  IF RowCond(y, H) THEN <<y>> \o RowsFrom(y + 1, H) ELSE <<>>

RECURSIVE GroupsFrom(_, _)
\* The values xByte takes in the column loop, in order.
GroupsFrom(rr, xByte) ==
  IF ColCond(rr, xByte) THEN <<xByte>> \o GroupsFrom(rr, xByte + 8) ELSE <<>>

RECURSIVE ValueFrom(_, _, _, _, _, _)
\* The inner loop over x: the bits are distinct, so |= is a sum.
ValueFrom(img, ob, xByte, y, left, x) ==
  IF x < left
    THEN (IF qBluePixel(img, ob, xByte + x, y) < 128
            THEN 2 ^ BitPos(left, x) ELSE 0)
         + ValueFrom(img, ob, xByte, y, left, x + 1)
    ELSE 0

\* The bytes one row emits, one per column group.
RowBytes(img, ob, rr, y) ==
  LET gs == GroupsFrom(rr, 0)
  IN  [k \in 1..Len(gs) |-> ValueFrom(img, ob, gs[k], y, Left(rr, gs[k]), 0)]

RECURSIVE PackFrom(_, _, _, _, _)
\* The bytes of a glyph: rows in order, groups in order within a row.
PackFrom(img, ob, rr, H, y) ==
  IF RowCond(y, H)
    THEN RowBytes(img, ob, rr, y) \o PackFrom(img, ob, rr, H, y + 1)
    ELSE <<>>

SeqRange(sq) == {sq[k] : k \in 1..Len(sq)}

\* The (y, xByte, left) triples the two outer loops go through.
ScanOf(rr, H) ==
  { <<y, xb, Left(rr, xb)>> : y \in SeqRange(RowsFrom(0, H)),
                              xb \in SeqRange(GroupsFrom(rr, 0)) }

\* The positions image.pixel() is called with.
PixelReads(rr, H) ==
  UNION { { <<t[2] + x, t[1]>> : x \in 0..(t[3] - 1) } : t \in ScanOf(rr, H) }

\* The value of r.width() alone, for the rectangle the oracle returned.
WidthFieldRawWidth(f, c) == rectWidth(boundingRect(f, c))

\* lines 159-161: r = boundingRect(chars[i]); r.setX(0); r.x() + r.width()
WidthField(f, c) ==
  LET rr == setX(boundingRect(f, c), 0) IN rectX(rr) + rectWidth(rr)

\* i + 1 < chars.size()
WidthLoopCondShort(k) == k + 1 < CharsSize

\* for (size_t i = 0; i < chars.size(); i++), the width loop
WidthLoopCond(k) == k < CharsSize

\* for (size_t i = 0; i < chars.size(); i++), the advance loop
AdvanceLoopCond(k) == k < CharsSize

(***************************************************************************)
(* paintEvent, lines 54-63: the indices of chars the loops read, in order, *)
(* with -1 for the "\n" that ends a row.                                   *)
(***************************************************************************)
RECURSIVE PreviewRowFrom(_, _)
PreviewRowFrom(y, x) ==
  IF x <= PreviewCols /\ ~((y * PreviewCols) + x > CharsSize)
    THEN <<y * PreviewCols + x>> \o PreviewRowFrom(y, x + 1)
    ELSE <<>>

RECURSIVE PreviewFrom(_)
PreviewFrom(y) ==
  IF y < PreviewRows
    THEN PreviewRowFrom(y, 0) \o <<-1>> \o PreviewFrom(y + 1)
    ELSE <<>>

(***************************************************************************)
(* State.                                                                  *)
(***************************************************************************)
VARIABLES
  pc,           \* "idle" (event loop), a position in saveButton, or "crashed"
  m_font,       \* MainWidget::m_font
  needPaint,    \* update() was called and paintEvent has not run since
  s,            \* paintEvent: the indices of chars appended to s, -1 for "\n"
  font,         \* saveButton: the local copy of the font
  charHeight,   \* saveButton: metrics.height()
  fp,           \* saveButton: "none", "open", "null" (fopen failed) or "closed"
  i,            \* saveButton: the index of the loop under way
  image,        \* saveButton: the black pixels of the QImage
  r,            \* saveButton: the rectangle of the glyph under way
  oob,          \* the values the last packing got for reads outside the image
  reads,        \* the positions the last packing called image.pixel() with
  scan,         \* the (y, xByte, left) triples the last packing went through
  out_height,   \* the values emitted for the field height
  out_chars,    \* the byte arrays emitted for the field chars
  out_width,    \* the values emitted for the field width
  out_advance,  \* the values emitted for the field advance
  nullWrite,    \* fprintf or fclose was called with a null FILE*
  closes        \* the number of fclose calls on the opened sink

vars ==
  << pc, m_font, needPaint, s, font, charHeight, fp, i, image, r, oob, reads,
     scan, out_height, out_chars, out_width, out_advance, nullWrite, closes >>

widgetVars == << m_font, needPaint, s >>

runVars ==
  << font, charHeight, fp, i, image, r, oob, reads, scan, out_height,
     out_chars, out_width, out_advance, nullWrite, closes >>

\* The values of the locals of saveButton outside a run.
NoFont ==
  [h |-> 0, base |-> Glyph(0, 0, 0, 0, 0), alt |-> Glyph(0, 0, 0, 0, 0),
   altChar |-> 0]

NoRect == QRect(0, 0, 0, 0)

NoOob == [p \in {} |-> 255]


\* MainWindow(): MainWidget() calls setFont(font()), which calls update().
Init ==
  /\ pc = "idle"
  /\ m_font \in Fonts
  /\ needPaint = TRUE
  /\ s = <<>>
  /\ font = NoFont /\ charHeight = 0 /\ fp = "none" /\ i = 0
  /\ image = {} /\ r = NoRect /\ oob = NoOob /\ reads = {} /\ scan = {}
  /\ out_height = <<>> /\ out_chars = <<>> /\ out_width = <<>>
  /\ out_advance = <<>> /\ nullWrite = FALSE /\ closes = 0

\* Where a call of fprintf(fp, ...) or fclose(fp) leaves the handler: with a
\* null fp the call is undefined, and the process crashes or the call returns.
AfterWrite(next) == IF fp = "null" THEN {next, "crashed"} ELSE {next}

(***************************************************************************)
(* MainWidget::paintEvent (lines 50-66).  chars[k] with k >= chars.size()  *)
(* is undefined: the process crashes or goes on.                           *)
(***************************************************************************)
PaintEvent ==
  /\ pc = "idle"
  /\ needPaint
  /\ needPaint' = FALSE
  /\ s' = PreviewFrom(0)
  /\ pc' \in (IF \E k \in 1..Len(s') : s'[k] >= CharsSize
                THEN {"idle", "crashed"} ELSE {"idle"})
  /\ UNCHANGED << m_font >>
  /\ UNCHANGED runVars

(***************************************************************************)
(* MainWindow::fontButton (lines 97-103) with MainWidget::setFont.  The    *)
(* pending paint is delivered before the next button press is handled.     *)
(***************************************************************************)
FontButton ==
  /\ pc = "idle"
  /\ ~needPaint
  /\ \E ok \in BOOLEAN, f \in Fonts :
       IF ok
         THEN m_font' = f /\ needPaint' = TRUE
         ELSE UNCHANGED << m_font, needPaint >>
  /\ UNCHANGED << pc, s >>
  /\ UNCHANGED runVars

(***************************************************************************)
(* MainWindow::saveButton (lines 105-174).                                 *)
(***************************************************************************)
\* lines 107-117: the file dialog, the metrics, the image, fopen.
SaveButton ==
  /\ pc = "idle"
  /\ ~needPaint
  /\ \E isNull \in BOOLEAN, opened \in BOOLEAN :
       IF isNull
         THEN UNCHANGED << pc, font, charHeight, fp >>
         ELSE /\ pc' = "header"
              /\ font' = m_font
              /\ charHeight' = height(m_font)
              /\ fp' = IF opened THEN "open" ELSE "null"
  /\ UNCHANGED widgetVars
  /\ UNCHANGED << i, image, r, oob, reads, scan, out_height, out_chars,
                  out_width, out_advance, nullWrite, closes >>

\* lines 118-121: the four fprintf calls before the loop.
WriteHeader ==
  /\ pc = "header"
  /\ out_height' = Append(out_height, charHeight)
  /\ nullWrite' = (nullWrite \/ fp = "null")
  /\ i' = 0
  /\ pc' \in AfterWrite("glyph")
  /\ UNCHANGED widgetVars
  /\ UNCHANGED << font, charHeight, fp, image, r, oob, reads, scan,
                  out_chars, out_width, out_advance, closes >>

\* lines 124-133: fill, the rectangle, drawText.
GlyphPaint ==
  /\ pc = "glyph"
  /\ i < CharsSize
  /\ LET c  == chars[i + 1]
         rr == GlyphRect(font, c, charHeight)
     IN  /\ r' = rr
         /\ image' = drawText(Fill(image), c, rr)
  /\ pc' = "pack"
  /\ UNCHANGED widgetVars
  /\ UNCHANGED << font, charHeight, fp, i, oob, reads, scan, out_height,
                  out_chars, out_width, out_advance, nullWrite, closes >>

\* lines 134-151: the packing loops and the fprintf calls around them.
GlyphPack ==
  /\ pc = "pack"
  /\ reads' = PixelReads(r, charHeight)
  /\ scan' = ScanOf(r, charHeight)
  /\ \E ob \in [{p \in PixelReads(r, charHeight) : ~InImage(p[1], p[2])} -> OobBlue] :
       /\ oob' = ob
       /\ out_chars' = Append(out_chars, PackFrom(image, ob, r, charHeight, 0))
  /\ nullWrite' = (nullWrite \/ fp = "null")
  /\ i' = i + 1
  /\ pc' \in AfterWrite("glyph")
  /\ UNCHANGED widgetVars
  /\ UNCHANGED << font, charHeight, fp, image, r, out_height, out_width,
                  out_advance, closes >>

\* lines 153-154: the end of the field chars and the start of width.
CharsEnd ==
  /\ pc = "glyph"
  /\ ~(i < CharsSize)
  /\ nullWrite' = (nullWrite \/ fp = "null")
  /\ i' = 0
  /\ pc' \in AfterWrite("width")
  /\ UNCHANGED widgetVars
  /\ UNCHANGED << font, charHeight, fp, image, r, oob, reads, scan,
                  out_height, out_chars, out_width, out_advance, closes >>

\* lines 155-162: one entry of the field width.
WidthEntry ==
  /\ pc = "width"
  /\ WidthLoopCond(i)
  /\ out_width' = Append(out_width, WidthField(font, chars[i + 1]))
  /\ nullWrite' = (nullWrite \/ fp = "null")
  /\ i' = i + 1
  /\ pc' \in AfterWrite("width")
  /\ UNCHANGED widgetVars
  /\ UNCHANGED << font, charHeight, fp, image, r, oob, reads, scan,
                  out_height, out_chars, out_advance, closes >>

\* lines 163-164: the end of the field width and the start of advance.
WidthEnd ==
  /\ pc = "width"
  /\ ~WidthLoopCond(i)
  /\ nullWrite' = (nullWrite \/ fp = "null")
  /\ i' = 0
  /\ pc' \in AfterWrite("advance")
  /\ UNCHANGED widgetVars
  /\ UNCHANGED << font, charHeight, fp, image, r, oob, reads, scan,
                  out_height, out_chars, out_width, out_advance, closes >>

\* lines 165-170: one entry of the field advance.
AdvanceEntry ==
  /\ pc = "advance"
  /\ AdvanceLoopCond(i)
  /\ out_advance' = Append(out_advance, horizontalAdvance(font, chars[i + 1]))
  /\ nullWrite' = (nullWrite \/ fp = "null")
  /\ i' = i + 1
  /\ pc' \in AfterWrite("advance")
  /\ UNCHANGED widgetVars
  /\ UNCHANGED << font, charHeight, fp, image, r, oob, reads, scan,
                  out_height, out_chars, out_width, closes >>

\* lines 171-173: the last two fprintf calls and fclose.
CloseFile ==
  /\ pc = "advance"
  /\ ~AdvanceLoopCond(i)
  /\ nullWrite' = (nullWrite \/ fp = "null")
  /\ fp' = IF fp = "open" THEN "closed" ELSE fp
  /\ closes' = IF fp = "open" THEN closes + 1 ELSE closes
  /\ pc' \in AfterWrite("done")
  /\ UNCHANGED widgetVars
  /\ UNCHANGED << font, charHeight, i, image, r, oob, reads, scan,
                  out_height, out_chars, out_width, out_advance >>

\* line 174: saveButton returns to the event loop; its locals are gone.
Return ==
  /\ pc = "done"
  /\ pc' = "idle"
  /\ font' = NoFont /\ charHeight' = 0 /\ fp' = "none" /\ i' = 0
  /\ image' = {} /\ r' = NoRect /\ oob' = NoOob /\ reads' = {} /\ scan' = {}
  /\ out_height' = <<>> /\ out_chars' = <<>> /\ out_width' = <<>>
  /\ out_advance' = <<>> /\ nullWrite' = FALSE /\ closes' = 0
  /\ UNCHANGED widgetVars

Next ==
  \/ PaintEvent
  \/ FontButton
  \/ SaveButton
  \/ WriteHeader
  \/ GlyphPaint
  \/ GlyphPack
  \/ CharsEnd
  \/ WidthEntry
  \/ WidthEnd
  \/ AdvanceEntry
  \/ CloseFile
  \/ Return

Spec == Init /\ [][Next]_vars

(***************************************************************************)
(* Properties.                                                             *)
(***************************************************************************)
\* The metrics the oracle gives entry k (1-based) of the repertoire.
MetricsAt(k) == MetricsOf(font, chars[k])

\* A packing has run and the image still holds the glyph it read.
Packed == pc # "pack" /\ Len(out_chars) > 0

\* Bit b of the value v.
BitOf(v, b) == (v \div (2 ^ b)) % 2

\* ceil(w / 8)
Ceil8(w) == (w + 7) \div 8

Min8(n) == IF n > 8 THEN 8 ELSE n

\* C1, byte-count law: for every repertoire entry whose emitted width is w,
\* with H the emitted height, the entry's byte array in chars has exactly
\* H * ceil(w / 8) bytes when w > 0, and none otherwise.
C1_ByteCountLaw ==
  \A k \in 1..Len(out_width) :
    LET w == out_width[k]
        H == out_height[1]
    IN  Len(out_chars[k]) = (IF w > 0 THEN H * Ceil8(w) ELSE 0)

\* A finished run that emitted an entry of more than one group per row over
\* more than one row, and an entry of non-positive width.
C1_Witness ==
  /\ pc = "done"
  /\ out_height[1] > 1
  /\ \E k \in 1..Len(out_width) :
       out_width[k] > 8 /\ Len(out_chars[k]) = out_height[1] * 2
  /\ \E k \in 1..Len(out_width) : out_width[k] <= 0 /\ out_chars[k] = <<>>

\* C2, bit-order law: the byte emitted for row y and column group xByte has
\* bit (left-1)-x set exactly when pixel (xByte+x, y) is black, for x in
\* [0, left), and no other bit set: bit 7 is the leftmost pixel of a full
\* group, bit k-1 the leftmost of a trailing group of k columns, whose bits
\* k..7 are zero.
C2_BitOrderLaw ==
  Packed =>
    LET bytes == out_chars[Len(out_chars)]
        G     == Cardinality({t \in scan : t[1] = 0})
    IN  /\ Len(bytes) = Cardinality(scan)
        /\ \A t \in scan :
             LET v == bytes[t[1] * G + (t[2] \div 8) + 1]
             IN  /\ v < 256
                 /\ \A b \in 0..7 :
                      (BitOf(v, b) = 1) <=>
                        /\ b < t[3]
                        /\ qBluePixel(image, oob, t[2] + ((t[3] - 1) - b), t[1]) < 128

\* A glyph packed with a full group whose leftmost pixel is black and a
\* trailing partial group whose leftmost pixel is black.
C2_Witness ==
  /\ Packed
  /\ LET bytes == out_chars[Len(out_chars)]
         G     == Cardinality({t \in scan : t[1] = 0})
     IN  /\ \E t \in scan :
               t[3] = 8 /\ bytes[t[1] * G + (t[2] \div 8) + 1] >= 128
         /\ \E t \in scan :
               /\ t[3] \in 2..7
               /\ <<t[2], t[1]>> \in image
               /\ BitOf(bytes[t[1] * G + (t[2] \div 8) + 1], t[3] - 1) = 1

\* C3 as stated: at the end of a run the emitted chars, width and advance
\* each have 186 entries, the length of the repertoire.
C3_Original ==
  pc = "done" =>
    /\ Len(out_chars) = 186 /\ Len(out_width) = 186 /\ Len(out_advance) = 186
    /\ CharsSize = 186

\* C3, length agreement: at the end of a run the emitted chars, width and
\* advance each have 170 entries, the length of the repertoire.
C3_LengthAgreement ==
  pc = "done" =>
    /\ Len(out_chars) = 170 /\ Len(out_width) = 170 /\ Len(out_advance) = 170
    /\ CharsSize = 170

\* A run that ended with the sink closed and the three fields emitted.
C3_Witness ==
  /\ pc = "done" /\ fp = "closed"
  /\ Len(out_chars) = CharsSize /\ Len(out_advance) = CharsSize

\* C4 as stated: the width emitted for a character is the width rw of its
\* bounding rectangle, whatever rx is.
C4_Original ==
  \A k \in 1..Len(out_width) : out_width[k] = MetricsAt(k).w

\* C4, reported width: the width emitted for a character with bounding
\* rectangle (rx, ry, rw, rh) is the rectangle's right edge rx + rw.
C4_ReportedWidth ==
  \A k \in 1..Len(out_width) : out_width[k] = MetricsAt(k).x + MetricsAt(k).w

\* A width emitted for a rectangle that does not start at 0.
C4_Witness ==
  \E k \in 1..Len(out_width) :
    /\ MetricsAt(k).x > 0 /\ MetricsAt(k).w > 0
    /\ out_width[k] = MetricsAt(k).x + MetricsAt(k).w

\* The scan of a glyph over the columns [from, to) and the rows [0, H).
ScanOver(from, to, H) ==
  { <<y, xb, Min8(to - xb)>> :
      y \in 0..(H - 1), xb \in {c \in from..(to - 1) : (c - from) % 8 = 0} }

\* C5 as stated: the column groups start at xByte = rx and step by 8 while
\* xByte < rx + rw, with left = min(8, rx + rw - xByte); the columns read
\* are exactly [rx, rx + rw).
C5_Original ==
  Packed =>
    LET g == MetricsAt(Len(out_chars))
    IN  /\ scan = ScanOver(g.x, g.x + g.w, charHeight)
        /\ reads = (g.x .. (g.x + g.w - 1)) \X (0 .. (charHeight - 1))

\* C5, column scan origin: the column groups start at xByte = 0 and step by
\* 8 while xByte < rx + rw, with left = min(8, rx + rw - xByte); the columns
\* read are exactly [0, rx + rw).
C5_ColumnScan ==
  Packed =>
    LET g == MetricsAt(Len(out_chars))
    IN  /\ scan = ScanOver(0, g.x + g.w, charHeight)
        /\ reads = (0 .. (g.x + g.w - 1)) \X (0 .. (charHeight - 1))

\* A glyph with rx > 0 packed with a read of a column left of rx.
C5_Witness ==
  /\ Packed
  /\ MetricsAt(Len(out_chars)).x > 0
  /\ \E p \in reads : p[1] < MetricsAt(Len(out_chars)).x
  /\ \E t \in scan : t[2] = 8 /\ t[3] < 8

\* C6 as stated: every pixel read is inside the 100x100 image, and no entry
\* is emitted for a character whose rectangle or line height exceeds it.
C6_NoReadOutside ==
  /\ \A p \in reads : InImage(p[1], p[2])
  /\ \A k \in 1..Len(out_chars) :
       MetricsAt(k).x + MetricsAt(k).w <= ImageWidth /\ charHeight <= ImageHeight

\* The characters C7 is about, as stated: rw = 0 or rh = 0.
EmptyAsStated(g) == g.w = 0 \/ g.h = 0

\* The characters whose rectangle ends at the origin: rx + rw = 0.
EmptyAtOrigin(g) == g.x + g.w = 0

\* C7 as stated: a character with rw = 0 or rh = 0 gets no bytes in chars,
\* 0 in width and the oracle's advance in advance.
C7_Original ==
  /\ \A k \in 1..Len(out_chars) :
       EmptyAsStated(MetricsAt(k)) => out_chars[k] = <<>>
  /\ \A k \in 1..Len(out_width) :
       EmptyAsStated(MetricsAt(k)) => out_width[k] = 0
  /\ \A k \in 1..Len(out_advance) :
       EmptyAsStated(MetricsAt(k)) => out_advance[k] = MetricsAt(k).adv
  /\ pc = "done" => Len(out_advance) = CharsSize

\* C7, empty glyph: a character whose rectangle has rx + rw = 0 (the empty
\* rectangle (0, 0, 0, 0) for one) gets no bytes in chars, 0 in width and
\* the oracle's advance in advance, for any ry, rh and line height.
C7_EmptyGlyph ==
  /\ \A k \in 1..Len(out_chars) :
       EmptyAtOrigin(MetricsAt(k)) => out_chars[k] = <<>>
  /\ \A k \in 1..Len(out_width) :
       EmptyAtOrigin(MetricsAt(k)) => out_width[k] = 0
  /\ \A k \in 1..Len(out_advance) :
       EmptyAtOrigin(MetricsAt(k)) => out_advance[k] = MetricsAt(k).adv
  /\ pc = "done" => Len(out_advance) = CharsSize

\* A finished run of positive line height with the empty rectangle for some
\* character: no bytes, width 0, advance 4.
C7_Witness ==
  /\ pc = "done"
  /\ charHeight > 0
  /\ \E k \in 1..CharsSize :
       /\ MetricsAt(k) = Glyph(0, 0, 0, 0, 4)
       /\ out_chars[k] = <<>> /\ out_width[k] = 0 /\ out_advance[k] = 4
  /\ \E k \in 1..CharsSize :
       /\ MetricsAt(k).x + MetricsAt(k).w # 0
       /\ out_chars[k] # <<>>

\* C8 as stated: a sink that failed to open is never written to or closed,
\* and a run that ends has closed its sink exactly once.
C8_FailureSemantics ==
  /\ fp = "null" => ~nullWrite
  /\ pc = "done" => fp = "closed" /\ closes = 1

\* C9, buffer reuse: when a glyph has been painted the image holds no black
\* pixel but the ones painted for it, and every black pixel a packing read
\* was painted for the glyph it packed.
C9_BufferReuse ==
  /\ pc = "pack" => image \subseteq Ink(chars[i + 1], r)
  /\ Packed =>
       \A p \in reads :
         (InImage(p[1], p[2]) /\ p \in image) => p \in Ink(chars[Len(out_chars)], r)

\* A glyph painted after another one whose pixels are not all in the image.
C9_Witness ==
  /\ pc = "pack"
  /\ i > 0
  /\ image # {}
  /\ Ink(chars[i], GlyphRect(font, chars[i], charHeight)) \ image # {}

\* C10 as stated: every index of chars that paintEvent reads is below
\* chars.size().
C10_PreviewInRange ==
  \A k \in 1..Len(s) : s[k] < CharsSize

====
